---- MODULE Spec2Model ----
(***************************************************************************)
(* Model of the rclone_papi reconciliation scripts.                        *)
(*                                                                         *)
(*   scripts/rclone_papi.py           complete_list_check (directory mode  *)
(*                                    diff + purge), the file level backup *)
(*                                    large_folder_backup_with_analysis    *)
(*                                    and the __main__ pair loop           *)
(*   scripts/rclone_papi_st_check.py  complete_file_list_check (file mode  *)
(*                                    attribute aware diff)                *)
(*                                                                         *)
(* Paths are sequences of characters, compared by code point as Python     *)
(* compares str.  Texts of errors are sequences of words; "x in text" is   *)
(* containment of a contiguous run of words.                               *)
(***************************************************************************)
EXTENDS Integers, Sequences, FiniteSets, TLC

(***************************************************************************)
(* Bounds of the exploration.                                              *)
(***************************************************************************)
MaxPairs == 2
MaxListing == 3
MaxEntries == 2
MaxRows == 2
MaxDiffs == 2

(***************************************************************************)
(* Python str: ordering, split, rstrip.                                    *)
(***************************************************************************)
Ord(c) ==
    CASE c = "-" -> 45
      [] c = "/" -> 47
      [] c = "a" -> 97
      [] c = "b" -> 98
      [] c = "c" -> 99

Min2(x, y) == IF x < y THEN x ELSE y

\* s < t for Python str: first differing code point decides, a proper
\* prefix is smaller.
StrLess(s, t) ==
    \/ \E k \in 1..Min2(Len(s), Len(t)) :
          /\ \A j \in 1..(k - 1) : s[j] = t[j]
          /\ Ord(s[k]) < Ord(t[k])
    \/ /\ Len(s) < Len(t)
       /\ \A j \in 1..Len(s) : s[j] = t[j]

\* p.split('/'): the list of the pieces between separators.
RECURSIVE Split(_, _)
Split(p, sep) ==
    IF \A k \in 1..Len(p) : p[k] # sep
    THEN <<p>>
    ELSE LET k == CHOOSE x \in 1..Len(p) :
                      /\ p[x] = sep
                      /\ \A y \in 1..(x - 1) : p[y] # sep
         IN  <<SubSeq(p, 1, k - 1)>> \o Split(SubSeq(p, k + 1, Len(p)), sep)

\* key=lambda p: len(p.split('/'))
Depth(p) == Len(Split(p, "/"))

\* sorted(S) of a set of str: ascending, smallest first.
RECURSIVE Sorted(_)
Sorted(S) ==
    IF S = {} THEN <<>>
    ELSE LET m == CHOOSE x \in S : \A y \in S \ {x} : StrLess(x, y)
         IN  <<m>> \o Sorted(S \ {m})

\* sorted(seq, key=Depth, reverse=True): Python's sort is stable and
\* reverse=True keeps the original order of elements with equal keys, so
\* every element is placed behind all elements whose key is not smaller.
RECURSIVE InsertByDepthDesc(_, _)
InsertByDepthDesc(x, out) ==
    IF out = <<>> \/ Depth(out[Len(out)]) >= Depth(x)
    THEN Append(out, x)
    ELSE Append(InsertByDepthDesc(x, SubSeq(out, 1, Len(out) - 1)),
                out[Len(out)])

RECURSIVE SortByDepthDesc(_)
SortByDepthDesc(seq) ==
    IF seq = <<>> THEN <<>>
    ELSE InsertByDepthDesc(seq[Len(seq)],
                           SortByDepthDesc(SubSeq(seq, 1, Len(seq) - 1)))

Range(seq) == {seq[k] : k \in 1..Len(seq)}

(***************************************************************************)
(* The remote side: directory trees a location may hold.                   *)
(***************************************************************************)
DirUniverse ==
    { <<"a">>,
      <<"a", "/", "b">>,
      <<"a", "/", "b", "/", "c">>,
      <<"a", "-", "b">> }

\* q is an ancestor directory of p: p = q + "/" + rest
IsAncestor(q, p) ==
    /\ Len(q) < Len(p)
    /\ SubSeq(p, 1, Len(q)) = q
    /\ p[Len(q) + 1] = "/"

\* A recursive directory listing names every directory of the subtree, so
\* with a directory it names the directories above it.
PrefixClosed(T) ==
    \A p \in T : \A q \in DirUniverse : IsAncestor(q, p) => q \in T

DirTrees ==
    {T \in SUBSET DirUniverse : PrefixClosed(T) /\ Cardinality(T) <= MaxListing}

SmallDirTrees == {T \in DirTrees : T \subseteq {<<"a">>}}

\* lsjson --dirs-only output: one item per directory.
LsjsonItems(T) == {[Path |-> p, IsDir |-> TRUE] : p \in T}

\* set(item['Path'] for item in listing if item['IsDir'])
Structure(listing) == {item.Path : item \in {x \in listing : x.IsDir}}

(***************************************************************************)
(* More of Python str.                                                     *)
(***************************************************************************)
\* s.rstrip(c)
RECURSIVE RStrip(_, _)
RStrip(s, c) ==
    IF s # <<>> /\ s[Len(s)] = c THEN RStrip(SubSeq(s, 1, Len(s) - 1), c) ELSE s

\* s.lstrip(c)
RECURSIVE LStrip(_, _)
LStrip(s, c) ==
    IF s # <<>> /\ s[1] = c THEN LStrip(SubSeq(s, 2, Len(s)), c) ELSE s

\* s.strip(): white space off both ends;  s.strip('"'): quotes off both ends
Strip(s, c) == LStrip(RStrip(s, c), c)

\* s.replace('\\', '/')
ReplaceChar(s, old, new) == [k \in 1..Len(s) |-> IF s[k] = old THEN new ELSE s[k]]

\* Mutant of FullDstPath: the path is the destination root alone.
MutFullDstPathRootOnly(root_dst, rel_path) == RStrip(root_dst, "/")

\* f"{root_dst}/{rel_path}".rstrip('/')
FullDstPath(root_dst, rel_path) == RStrip(root_dst \o <<"/">> \o rel_path, "/")

(***************************************************************************)
(* Texts of errors: sequences of words.                                    *)
(***************************************************************************)
LowerWord(w) ==
    CASE w = "Directory" -> "directory"
      [] w = "Not" -> "not"
      [] w = "Empty" -> "empty"
      [] w = "Found" -> "found"
      [] OTHER -> w

\* str.lower()
Lower(text) == [k \in 1..Len(text) |-> LowerWord(text[k])]

\* sub in text
Contains(text, sub) ==
    \E k \in 1..(Len(text) - Len(sub) + 1) :
        SubSeq(text, k, k + Len(sub) - 1) = sub

NoStderr == <<"<no stderr attribute>">>

\* What a failed purge raises: str(e), and the stderr of e.__context__ when
\* that object has one.
PurgeErrors ==
    [ text : { <<"directory", "not", "empty">>,
               <<"Directory", "Not", "Empty">>,
               <<"directory", "not", "found">>,
               <<"exit", "status", "3">>,
               <<"exit", "status", "1">> },
      stderr : { NoStderr,
                 <<"Directory", "Not", "Empty">>,
                 <<"not", "found">> } ]

\* error_msg = str(e).lower(), then " (stderr: ...)" appended as it is
ErrorMsg(e) ==
    Lower(e.text) \o
    (IF e.stderr # NoStderr THEN <<"(stderr:">> \o e.stderr \o <<")">> ELSE <<>>)

LogEntry(level, msg, arg) == [level |-> level, msg |-> msg, arg |-> arg]

\* Mutant of Triage: the elif forgets the not-found exit status.
MutTriageNoExitStatus(full_dst_path, msg) ==
    IF Contains(msg, <<"directory", "not", "empty">>)
    THEN LogEntry("WARNING", "Skipped non-empty folder", full_dst_path)
    ELSE IF Contains(msg, <<"not", "found">>)
         THEN LogEntry("WARNING", "Folder already deleted or not found", full_dst_path)
         ELSE LogEntry("ERROR", "Failed to delete", full_dst_path)

\* The if / elif / else over error_msg of the purge loop's except block.
Triage(full_dst_path, msg) ==
    IF Contains(msg, <<"directory", "not", "empty">>)
    THEN LogEntry("WARNING", "Skipped non-empty folder", full_dst_path)
    ELSE IF \/ Contains(msg, <<"not", "found">>)
            \/ Contains(msg, <<"exit", "status", "3">>)
         THEN LogEntry("WARNING", "Folder already deleted or not found", full_dst_path)
         ELSE LogEntry("ERROR", "Failed to delete", full_dst_path)

(***************************************************************************)
(* State.                                                                  *)
(***************************************************************************)
VARIABLES
    \* the environment: what the remote may answer, the batch input
    remote_dirs,        \* directory trees a listing may return
    remote_diffs,       \* results rclone.diff may return
    remote_files,       \* file listings lsjson may return
    script,             \* which of the two scripts runs
    csv_rows,           \* rows of the CSV file, header row taken off
    dry_run,            \* the dry_run argument of the calls
    \* control
    pc,                 \* position of the script
    exc,                \* origin of the exception propagating or caught
    i,                  \* index into folders_to_sync of the pair in work
    folders_to_sync,
    \* complete_list_check
    source_list, target_structure, to_create, to_delete,
    sorted_to_delete, deleted_count, error_msg,
    \* large_folder_backup_with_analysis
    diffs, to_copy, files_to_delete, needed_dirs,
    \* complete_file_list_check
    file_source_structure, file_target_structure, differences,
    \* observation
    log,                \* log lines written since the pair in work began
    ops,                \* remote operations issued, in order, with their pair
    attempts,           \* purge calls of the running complete_list_check
    processed           \* pairs the loop body was entered for, in order

envVars == <<remote_dirs, remote_diffs, remote_files, script, csv_rows, dry_run>>
clcVars == <<source_list, target_structure, to_create, to_delete,
             sorted_to_delete, deleted_count, error_msg, attempts>>
bakVars == <<diffs, to_copy, files_to_delete, needed_dirs>>
fileVars == <<file_source_structure, file_target_structure, differences>>
loopVars == <<i, folders_to_sync, processed>>
vars == <<envVars, pc, exc, loopVars, clcVars, bakVars, fileVars, log, ops>>

Info(msg) == LogEntry("INFO", msg, <<>>)
Warning(msg) == LogEntry("WARNING", msg, <<>>)
Error(msg) == LogEntry("ERROR", msg, <<>>)

root_src == folders_to_sync[i].src
root_dst == folders_to_sync[i].dst

Op(kind) == [pair |-> i, op |-> kind]

(***************************************************************************)
(* complete_list_check(root_src, root_dst, dry_run)                        *)
(***************************************************************************)
Raise(origin) ==
    /\ pc' = "raised"
    /\ exc' = origin

\* Lines 93-101: the rclone.conf detection succeeds; the call starts with
\* fresh locals.
ClcConfigOk ==
    /\ pc = "clc_config"
    /\ pc' = "collect_source"
    /\ source_list' = {}
    /\ target_structure' = {}
    /\ to_create' = <<>>
    /\ to_delete' = <<>>
    /\ sorted_to_delete' = <<>>
    /\ deleted_count' = 0
    /\ error_msg' = <<>>
    /\ attempts' = <<>>
    /\ log' = log \o << Info("Starting folder structure check"),
                        Info("Collecting source folder structure...") >>
    /\ UNCHANGED <<envVars, exc, loopVars, bakVars, fileVars, ops>>

\* Lines 93-98: APPDATA is not set, or rclone.conf does not exist.
ClcConfigFail ==
    /\ pc = "clc_config"
    /\ Raise("config")
    /\ UNCHANGED <<envVars, loopVars, clcVars, bakVars, fileVars, log, ops>>

Collecting == pc \in {"collect_source", "collect_target"}
is_source == pc = "collect_source"
Side == IF is_source THEN "source" ELSE "target"

\* What follows a returned collect_structure: lines 131-135.
Collected(structure, entry) ==
    IF is_source
    THEN /\ source_list' = structure
         /\ target_structure' = target_structure
         /\ pc' = "collect_target"
         /\ log' = log \o << entry, Info("Collecting target folder structure...") >>
    ELSE /\ target_structure' = structure
         /\ source_list' = source_list
         /\ pc' = "save_lists"
         /\ log' = Append(log, entry)

\* Lines 105-115: rclone.lsjson answers.
CollectOk ==
    /\ Collecting
    /\ \E T \in remote_dirs :
          Collected(Structure(LsjsonItems(T)),
                    LogEntry("INFO", "Collected folders", Side))
    /\ ops' = Append(ops, Op("list"))
    /\ UNCHANGED <<envVars, exc, loopVars, bakVars, fileVars,
                   to_create, to_delete, sorted_to_delete, deleted_count,
                   error_msg, attempts>>

\* Lines 116-124: rclone.lsjson is not there (AttributeError); the raw
\* lsjson command answers.
CollectFallbackOk ==
    /\ Collecting
    /\ \E T \in remote_dirs :
          Collected(Structure(LsjsonItems(T)),
                    LogEntry("INFO", "Collected folders (via fallback)", Side))
    /\ ops' = Append(ops, Op("list"))
    /\ UNCHANGED <<envVars, exc, loopVars, bakVars, fileVars,
                   to_create, to_delete, sorted_to_delete, deleted_count,
                   error_msg, attempts>>

\* Mutant of CollectFail: the except clause logs and returns an empty
\* structure, no raise.
MutCollectFailSwallowed ==
    /\ Collecting
    /\ Collected({}, LogEntry("ERROR", "Failed to collect structure", Side))
    /\ ops' = Append(ops, Op("list"))
    /\ UNCHANGED <<envVars, exc, loopVars, bakVars, fileVars,
                   to_create, to_delete, sorted_to_delete, deleted_count,
                   error_msg, attempts>>

\* Lines 125-127: rclone.lsjson raises something that is no AttributeError.
CollectFail ==
    /\ Collecting
    /\ log' = Append(log, LogEntry("ERROR", "Failed to collect structure", Side))
    /\ ops' = Append(ops, Op("list"))
    /\ Raise("lsjson")
    /\ UNCHANGED <<envVars, loopVars, clcVars, bakVars, fileVars>>

\* Lines 116-121: rclone.lsjson is not there and the raw lsjson command (or
\* json.loads of its output) raises.  The raise happens inside the
\* "except AttributeError" block, so the "except Exception" clause of the
\* same try statement does not handle it: nothing is logged here.
CollectFallbackFail ==
    /\ Collecting
    /\ ops' = Append(ops, Op("list"))
    /\ Raise("lsjson_raw")
    /\ UNCHANGED <<envVars, loopVars, clcVars, bakVars, fileVars, log>>

\* Lines 137-146: folder_list.txt is written.
SaveListsOk ==
    /\ pc = "save_lists"
    /\ pc' = "compare"
    /\ log' = Append(log, Info("Saved folder structures"))
    /\ UNCHANGED <<envVars, exc, loopVars, clcVars, bakVars, fileVars, ops>>

\* Lines 147-148: writing folder_list.txt raises; logged, not re-raised.
SaveListsFail ==
    /\ pc = "save_lists"
    /\ pc' = "compare"
    /\ log' = Append(log, Error("Failed to save folder lists"))
    /\ UNCHANGED <<envVars, exc, loopVars, clcVars, bakVars, fileVars, ops>>

\* Mutant of ToDelete: the operands of the difference swapped.
MutToDeleteSwapped(src, dst) == Sorted(src \ dst)

\* Lines 151-152.
ToCreate(src, dst) == Sorted(src \ dst)
ToDelete(src, dst) == Sorted(dst \ src)

\* Mutant of DeleteOrder: the depth sort left out.
MutDeleteOrderUnsorted(td) == td

\* Mutant of DeleteOrder: a sort by depth that is not stable, directories of
\* equal depth come out in descending order.
RECURSIVE MutInsertTiesReversed(_, _)
MutInsertTiesReversed(x, out) ==
    IF out = <<>> \/ Depth(out[Len(out)]) > Depth(x)
    THEN Append(out, x)
    ELSE Append(MutInsertTiesReversed(x, SubSeq(out, 1, Len(out) - 1)),
                out[Len(out)])

RECURSIVE MutDeleteOrderTiesReversed(_)
MutDeleteOrderTiesReversed(td) ==
    IF td = <<>> THEN <<>>
    ELSE MutInsertTiesReversed(td[Len(td)],
                               MutDeleteOrderTiesReversed(SubSeq(td, 1, Len(td) - 1)))

\* Mutant of DeleteOrder: only the top-most directories of the delete set
\* are kept.
RECURSIVE TopMostOnly(_, _)
TopMostOnly(td, all) ==
    IF td = <<>> THEN <<>>
    ELSE (IF \E q \in all : IsAncestor(q, td[1]) THEN <<>> ELSE <<td[1]>>)
         \o TopMostOnly(SubSeq(td, 2, Len(td)), all)

MutDeleteOrderTopOnly(td) == SortByDepthDesc(TopMostOnly(td, Range(td)))

\* Line 174.
DeleteOrder(td) == SortByDepthDesc(td)

\* Lines 150-175: the two differences, the dry run return, the order of the
\* purge loop.
Compare ==
    /\ pc = "compare"
    /\ to_create' = ToCreate(source_list, target_structure)
    /\ to_delete' = ToDelete(source_list, target_structure)
    /\ IF dry_run
       THEN /\ log' = Append(log, Info("Dry run mode: No folder creations or deletions performed."))
            /\ pc' = "clc_return"
            /\ UNCHANGED <<sorted_to_delete, deleted_count>>
       ELSE /\ log' = Append(log, Info("Starting folder deletions purging"))
            /\ sorted_to_delete' = DeleteOrder(to_delete')
            /\ deleted_count' = 0
            /\ pc' = "purge"
    /\ UNCHANGED <<envVars, exc, loopVars, bakVars, fileVars, ops,
                   source_list, target_structure, error_msg, attempts>>

InPurgeLoop == pc = "purge" /\ Len(attempts) < Len(sorted_to_delete)
rel_path == sorted_to_delete[Len(attempts) + 1]
full_dst_path == FullDstPath(root_dst, rel_path)

Attempt(ok) == [path |-> full_dst_path, rel |-> rel_path, ok |-> ok]

\* Lines 176-181: one pass of the loop, the purge returns.
PurgeOk ==
    /\ InPurgeLoop
    /\ ops' = Append(ops, Op("purge"))
    /\ attempts' = Append(attempts, Attempt(TRUE))
    /\ log' = Append(log, LogEntry("INFO", "Purged folder and contents", full_dst_path))
    /\ deleted_count' = deleted_count + 1
    /\ UNCHANGED <<envVars, pc, exc, loopVars, bakVars, fileVars,
                   source_list, target_structure, to_create, to_delete,
                   sorted_to_delete, error_msg>>

\* Mutant of PurgeExcept: the else branch raises after logging.
MutPurgeExceptReraise(e) ==
    /\ error_msg' = ErrorMsg(e)
    /\ log' = Append(log, Triage(full_dst_path, error_msg'))
    /\ IF Triage(full_dst_path, error_msg').level = "ERROR"
       THEN Raise("purge")
       ELSE UNCHANGED <<pc, exc>>
    /\ UNCHANGED deleted_count

\* The except block of lines 182-196.
PurgeExcept(e) ==
    /\ error_msg' = ErrorMsg(e)
    /\ log' = Append(log, Triage(full_dst_path, error_msg'))
    /\ UNCHANGED <<pc, exc, deleted_count>>

\* Lines 176-196: one pass of the loop, the purge raises.
PurgeFail ==
    /\ InPurgeLoop
    /\ ops' = Append(ops, Op("purge"))
    /\ attempts' = Append(attempts, Attempt(FALSE))
    /\ \E e \in PurgeErrors : PurgeExcept(e)
    /\ UNCHANGED <<envVars, loopVars, bakVars, fileVars,
                   source_list, target_structure, to_create, to_delete,
                   sorted_to_delete>>

\* Lines 197-199: the loop is through.
PurgeEnd ==
    /\ pc = "purge"
    /\ Len(attempts) = Len(sorted_to_delete)
    /\ pc' = "clc_return"
    /\ log' = log \o << LogEntry("INFO", "Purged folders successfully", deleted_count),
                        Info("Folder structure sync completed.") >>
    /\ UNCHANGED <<envVars, exc, loopVars, clcVars, bakVars, fileVars, ops>>

NextCheck ==
    \/ ClcConfigOk
    \/ ClcConfigFail
    \/ CollectOk
    \/ CollectFallbackOk
    \/ CollectFail
    \/ CollectFallbackFail
    \/ SaveListsOk
    \/ SaveListsFail
    \/ Compare
    \/ PurgeOk
    \/ PurgeFail
    \/ PurgeEnd

Root(c, k) == <<c, ToString(k)>>
Pair(k) == [src |-> Root("s", k), dst |-> Root("d", k)]

\* Rest of the state while a part of the program is looked at alone.
IdleBackup ==
    /\ diffs = <<>>
    /\ to_copy = <<>>
    /\ files_to_delete = <<>>
    /\ needed_dirs = {}

IdleFile ==
    /\ file_source_structure = <<>>
    /\ file_target_structure = <<>>
    /\ differences = <<>>

IdleCheck ==
    /\ source_list = {}
    /\ target_structure = {}
    /\ to_create = <<>>
    /\ to_delete = <<>>
    /\ sorted_to_delete = <<>>
    /\ deleted_count = 0
    /\ error_msg = <<>>
    /\ attempts = <<>>

\* One call complete_list_check(src, dst, dry_run=False), as line 406 makes it.
InitCheck ==
    /\ remote_dirs = DirTrees
    /\ remote_diffs = {}
    /\ remote_files = {}
    /\ script = "rclone_papi"
    /\ csv_rows = <<>>
    /\ dry_run = FALSE
    /\ pc = "clc_config"
    /\ exc = "none"
    /\ i = 1
    /\ folders_to_sync = <<Pair(1)>>
    /\ processed = <<1>>
    /\ log = <<>>
    /\ ops = <<>>
    /\ IdleCheck
    /\ IdleBackup
    /\ IdleFile

SpecCheck == InitCheck /\ [][NextCheck]_vars

(***************************************************************************)
(* large_folder_backup_with_analysis(root_src, root_dst, dry_run)          *)
(***************************************************************************)
DiffItem(type, path) == [type |-> type, path |-> path]

\* Results rclone.diff may give in the runs over several pairs.
SmallDiffs ==
    { <<>>,
      << DiffItem("MISSING_ON_DST", <<"a", "/", "b">>) >>,
      << DiffItem("MISSING_ON_SRC", <<"c">>), DiffItem("EQUAL", <<"a">>) >>,
      << DiffItem("DIFFERENT", <<"a">>), DiffItem("MISSING_ON_SRC", <<"c">>) >> }

\* '/'.join(parts)
RECURSIVE Join(_)
Join(parts) ==
    IF Len(parts) = 0 THEN <<>>
    ELSE IF Len(parts) = 1 THEN parts[1]
    ELSE parts[1] \o <<"/">> \o Join(SubSeq(parts, 2, Len(parts)))

\* [str(parent) for parent in Path(path).parents if str(parent) != '.']
Parents(path) ==
    LET parts == Split(path, "/")
    IN  {Join(SubSeq(parts, 1, k)) : k \in 1..(Len(parts) - 1)}

\* Lines 262-268.
RECURSIVE ToCopy(_)
ToCopy(ds) ==
    IF ds = <<>> THEN <<>>
    ELSE (IF ds[1].type \in {"MISSING_ON_DST", "DIFFERENT"}
          THEN <<ds[1].path>> ELSE <<>>)
         \o ToCopy(SubSeq(ds, 2, Len(ds)))

\* Mutant of FilesToDelete: an else in the place of the elif of line 267.
RECURSIVE MutFilesToDeleteElse(_, _)
MutFilesToDeleteElse(ds, dst) ==
    IF ds = <<>> THEN <<>>
    ELSE (IF ds[1].type \in {"MISSING_ON_DST", "DIFFERENT"}
          THEN <<>>
          ELSE <<dst \o <<"/">> \o ds[1].path>>)
         \o MutFilesToDeleteElse(SubSeq(ds, 2, Len(ds)), dst)

RECURSIVE FilesToDelete(_, _)
FilesToDelete(ds, dst) ==
    IF ds = <<>> THEN <<>>
    ELSE (IF ds[1].type \in {"MISSING_ON_DST", "DIFFERENT"}
          THEN <<>>
          ELSE IF ds[1].type = "MISSING_ON_SRC"
               THEN <<dst \o <<"/">> \o ds[1].path>> ELSE <<>>)
         \o FilesToDelete(SubSeq(ds, 2, Len(ds)), dst)

\* Lines 276-281.
NeededDirs(tc, dst) ==
    UNION {{dst \o <<"/">> \o parent : parent \in Parents(tc[k])} : k \in 1..Len(tc)}

\* Lines 205-216: the rclone.conf detection of the backup succeeds.
BackupConfigOk ==
    /\ pc = "clc_return"
    /\ pc' = "diff"
    /\ diffs' = <<>>
    /\ to_copy' = <<>>
    /\ files_to_delete' = <<>>
    /\ needed_dirs' = {}
    /\ log' = Append(log, Info("Starting change analysis phase: Computing all differences..."))
    /\ UNCHANGED <<envVars, exc, loopVars, clcVars, fileVars, ops>>

\* Lines 205-211: APPDATA is not set, or rclone.conf does not exist.
BackupConfigFail ==
    /\ pc = "clc_return"
    /\ Raise("config")
    /\ UNCHANGED <<envVars, loopVars, clcVars, bakVars, fileVars, log, ops>>

\* Lines 217-282 without the return of lines 253-255: perform_sync plans
\* whatever dry_run is.
MutDiffOkIgnoresDryRun ==
    /\ pc = "diff"
    /\ ops' = Append(ops, Op("diff"))
    /\ \E ds \in remote_diffs :
          /\ diffs' = ds
          /\ to_copy' = ToCopy(ds)
          /\ files_to_delete' = FilesToDelete(ds, root_dst)
          /\ needed_dirs' = NeededDirs(to_copy', root_dst)
          /\ log' = log \o << Info("Differentiation analysis complete."),
                              Info("Starting sync operations using diffs..."),
                              LogEntry("INFO", "Planned copies/updates", Len(to_copy')),
                              LogEntry("INFO", "Planned deletions", Len(files_to_delete')) >>
          /\ pc' = "copy"
    /\ UNCHANGED <<envVars, exc, loopVars, clcVars, fileVars>>

\* Lines 217-282: rclone.diff answers; the planned actions are logged; in a
\* dry run the call returns, else perform_sync collects what to copy and
\* what to delete.
DiffOk ==
    /\ pc = "diff"
    /\ ops' = Append(ops, Op("diff"))
    /\ \E ds \in remote_diffs :
          /\ diffs' = ds
          /\ IF dry_run
             THEN /\ log' = log \o << Info("Differentiation analysis complete."),
                                      Info("Dry run mode: No actual operations performed (analysis only).") >>
                  /\ pc' = "backup_return"
                  /\ UNCHANGED <<to_copy, files_to_delete, needed_dirs>>
             ELSE /\ to_copy' = ToCopy(ds)
                  /\ files_to_delete' = FilesToDelete(ds, root_dst)
                  /\ needed_dirs' = NeededDirs(to_copy', root_dst)
                  /\ log' = log \o << Info("Differentiation analysis complete."),
                                      Info("Starting sync operations using diffs..."),
                                      LogEntry("INFO", "Planned copies/updates", Len(to_copy')),
                                      LogEntry("INFO", "Planned deletions", Len(files_to_delete')) >>
                  /\ pc' = "copy"
    /\ UNCHANGED <<envVars, exc, loopVars, clcVars, fileVars>>

\* Lines 226-228: rclone.diff raises; logged and re-raised.
DiffFail ==
    /\ pc = "diff"
    /\ ops' = Append(ops, Op("diff"))
    /\ log' = Append(log, Error("Error during diff computation"))
    /\ Raise("diff")
    /\ UNCHANGED <<envVars, loopVars, clcVars, bakVars, fileVars>>

\* Line 285: nothing to copy.
CopyNone ==
    /\ pc = "copy"
    /\ to_copy = <<>>
    /\ pc' = "delete"
    /\ UNCHANGED <<envVars, exc, loopVars, clcVars, bakVars, fileVars, log, ops>>

CopyCalled(entry) ==
    /\ pc = "copy"
    /\ to_copy # <<>>
    /\ ops' = Append(ops, Op("copy_files"))
    /\ log' = log \o << LogEntry("INFO", "Copying files...", Len(to_copy)), entry >>
    /\ pc' = "delete"
    /\ UNCHANGED <<envVars, exc, loopVars, clcVars, bakVars, fileVars>>

\* Lines 285-307: copy_files returns.
CopyOk == CopyCalled(Info("Copy completed successfully."))

\* Lines 303-305: some of the results have a non-zero return code.
CopyItemsFailed == CopyCalled(Error("files failed to copy"))

\* Mutant of CopyRaises: no try around copy_files, the exception leaves
\* perform_sync.
MutCopyRaisesEscapes ==
    /\ pc = "copy"
    /\ to_copy # <<>>
    /\ ops' = Append(ops, Op("copy_files"))
    /\ log' = Append(log, LogEntry("INFO", "Copying files...", Len(to_copy)))
    /\ Raise("copy_files")
    /\ UNCHANGED <<envVars, loopVars, clcVars, bakVars, fileVars>>

\* Lines 308-309: copy_files raises.
CopyRaises == CopyCalled(Error("Copy operation failed"))

\* Line 312: nothing to delete; lines 333: the call returns.
DeleteNone ==
    /\ pc = "delete"
    /\ files_to_delete = <<>>
    /\ pc' = "backup_return"
    /\ log' = Append(log, Info("Sync completed."))
    /\ UNCHANGED <<envVars, exc, loopVars, clcVars, bakVars, fileVars, ops>>

DeleteCalled(entry) ==
    /\ pc = "delete"
    /\ files_to_delete # <<>>
    /\ ops' = Append(ops, Op("delete_files"))
    /\ log' = log \o << LogEntry("INFO", "Deleting files...", Len(files_to_delete)),
                        entry, Info("Sync completed.") >>
    /\ pc' = "backup_return"
    /\ UNCHANGED <<envVars, exc, loopVars, clcVars, bakVars, fileVars>>

\* Lines 312-324: delete_files returns with return code 0.
DeleteOk == DeleteCalled(Info("Deletions completed successfully."))

\* Lines 321-322: delete_files returns a non-zero return code.
DeleteFailed == DeleteCalled(Error("Deletions failed"))

\* Lines 325-326: delete_files raises.
DeleteRaises == DeleteCalled(Error("Deletion operation failed"))

(***************************************************************************)
(* rclone_papi_st_check.py: complete_file_list_check(root_src, root_dst)   *)
(***************************************************************************)
\* A ModTime string: the instant it writes (whole seconds and the part
\* below the second) and whether datetime.fromisoformat reads it ("iso");
\* '' is what item.get('ModTime', '') gives for an item without the key.
ModTime(sec, sub) == [sec |-> sec, sub |-> sub, form |-> "iso"]
EmptyModTime == [sec |-> 0, sub |-> 0, form |-> "empty"]

\* A ModTime string of an instant that datetime.fromisoformat raises
\* ValueError for: before Python 3.11 it reads a fraction of three or six
\* digits only, and lsjson writes up to nine.
RawModTime(sec, sub) == [sec |-> sec, sub |-> sub, form |-> "raw"]

LsjsonFile(path, size, mod_time) ==
    [Path |-> path, Size |-> size, ModTime |-> mod_time, IsDir |-> FALSE]

\* Items lsjson --files-only may list.
FileItems ==
    { LsjsonFile(<<"a">>, 10, ModTime(0, 0)),
      LsjsonFile(<<"a">>, 10, ModTime(0, 5)),
      LsjsonFile(<<"a">>, 20, ModTime(0, 0)),
      LsjsonFile(<<"a">>, 10, ModTime(1, 0)),
      LsjsonFile(<<"a">>, 20, EmptyModTime),
      LsjsonFile(<<"b">>, 10, ModTime(0, 0)) }

SeqsUpTo(S, n) == UNION {[1..m -> S] : m \in 0..n}

\* Lines 112-123 and 128-139: the structure built from a listing.
FileStructure(listing) ==
    [k \in 1..Len(listing) |->
        [path |-> listing[k].Path,
         mod_time |-> listing[k].ModTime,
         size |-> listing[k].Size,
         crc |-> "",
         is_dir |-> listing[k].IsDir]]

\* Lines 158-159: {item['path']: item for item in structure}; a later item
\* replaces an earlier one of the same path.
DictOf(structure) ==
    [p \in {structure[k].path : k \in 1..Len(structure)} |->
        LET last == CHOOSE k \in 1..Len(structure) :
                        /\ structure[k].path = p
                        /\ \A m \in (k + 1)..Len(structure) : structure[m].path # p
        IN  structure[last]]

\* datetime.fromisoformat(...) raises ValueError
ParseFails(mt) == mt.form # "iso"

\* dt.replace(microsecond=0)
Truncated(mt) == mt.sec

\* Lines 194-203 without the truncation: the strings compared as they are.
MutModtimeDifferentRaw(s, t) == s # t

\* Lines 194-203.
ModtimeDifferent(s, t) ==
    IF ParseFails(s) \/ ParseFails(t)
    THEN s # t
    ELSE Truncated(s) # Truncated(t)

\* Line 192.
SizeDifferent(s, t) == s # t

NoneValue == "None"

\* Mutant of Classify: a path of both listings is reported only when size
\* and time both differ.
MutClassifyBothDiffer(path, sd, td) ==
    IF path \in DOMAIN sd /\ path \notin DOMAIN td
    THEN << [type |-> "MISSING_IN_TARGET", path |-> path,
             source_size |-> sd[path].size, source_modtime |-> sd[path].mod_time,
             target_size |-> NoneValue, target_modtime |-> NoneValue] >>
    ELSE IF path \in DOMAIN td /\ path \notin DOMAIN sd
    THEN << [type |-> "MISSING_IN_SOURCE", path |-> path,
             source_size |-> NoneValue, source_modtime |-> NoneValue,
             target_size |-> td[path].size, target_modtime |-> td[path].mod_time] >>
    ELSE IF path \in DOMAIN sd /\ path \in DOMAIN td
    THEN LET size_different == SizeDifferent(sd[path].size, td[path].size)
             modtime_different == ModtimeDifferent(sd[path].mod_time, td[path].mod_time)
         IN  IF size_different /\ modtime_different
             THEN << [type |-> "DIFFERENT", path |-> path,
                      source_size |-> sd[path].size,
                      source_modtime |-> sd[path].mod_time,
                      target_size |-> td[path].size,
                      target_modtime |-> td[path].mod_time,
                      size_different |-> size_different,
                      modtime_different |-> modtime_different] >>
             ELSE <<>>
    ELSE <<>>

\* Lines 167-215: what one path adds to differences.
Classify(path, sd, td) ==
    IF path \in DOMAIN sd /\ path \notin DOMAIN td
    THEN << [type |-> "MISSING_IN_TARGET", path |-> path,
             source_size |-> sd[path].size, source_modtime |-> sd[path].mod_time,
             target_size |-> NoneValue, target_modtime |-> NoneValue] >>
    ELSE IF path \in DOMAIN td /\ path \notin DOMAIN sd
    THEN << [type |-> "MISSING_IN_SOURCE", path |-> path,
             source_size |-> NoneValue, source_modtime |-> NoneValue,
             target_size |-> td[path].size, target_modtime |-> td[path].mod_time] >>
    ELSE IF path \in DOMAIN sd /\ path \in DOMAIN td
    THEN LET size_different == SizeDifferent(sd[path].size, td[path].size)
             modtime_different == ModtimeDifferent(sd[path].mod_time, td[path].mod_time)
         IN  IF size_different \/ modtime_different
             THEN << [type |-> "DIFFERENT", path |-> path,
                      source_size |-> sd[path].size,
                      source_modtime |-> sd[path].mod_time,
                      target_size |-> td[path].size,
                      target_modtime |-> td[path].mod_time,
                      size_different |-> size_different,
                      modtime_different |-> modtime_different] >>
             ELSE <<>>
    ELSE <<>>

RECURSIVE ClassifyAll(_, _, _)
ClassifyAll(paths, sd, td) ==
    IF paths = <<>> THEN <<>>
    ELSE Classify(paths[1], sd, td) \o ClassifyAll(SubSeq(paths, 2, Len(paths)), sd, td)

\* Mutant of Differences: the paths of the target listing are left out of
\* all_paths.
MutDifferencesSourcePaths(ss, ts) ==
    LET source_dict == DictOf(ss)
        target_dict == DictOf(ts)
        all_paths == DOMAIN source_dict
    IN  ClassifyAll(Sorted(all_paths), source_dict, target_dict)

\* Lines 157-215.
Differences(ss, ts) ==
    LET source_dict == DictOf(ss)
        target_dict == DictOf(ts)
        all_paths == DOMAIN source_dict \cup DOMAIN target_dict
    IN  ClassifyAll(Sorted(all_paths), source_dict, target_dict)

\* Lines 76-84, 106: the rclone.conf detection succeeds.
FileConfigOk ==
    /\ pc = "file_config"
    /\ pc' = "file_list_source"
    /\ file_source_structure' = <<>>
    /\ file_target_structure' = <<>>
    /\ differences' = <<>>
    /\ log' = Append(log, Info("Collecting full structure of source and target..."))
    /\ UNCHANGED <<envVars, exc, loopVars, clcVars, bakVars, ops>>

\* Lines 76-82: APPDATA is not set, or rclone.conf does not exist.
FileConfigFail ==
    /\ pc = "file_config"
    /\ Raise("config")
    /\ UNCHANGED <<envVars, loopVars, clcVars, bakVars, fileVars, log, ops>>

FileListing == pc \in {"file_list_source", "file_list_target"}

\* Lines 110-123 and 126-139: rclone_lsjson answers.
FileListOk ==
    /\ FileListing
    /\ ops' = Append(ops, Op("list"))
    /\ \E listing \in remote_files :
          IF pc = "file_list_source"
          THEN /\ file_source_structure' = FileStructure(listing)
               /\ pc' = "file_list_target"
               /\ UNCHANGED <<file_target_structure, log>>
          ELSE /\ file_target_structure' = FileStructure(listing)
               /\ pc' = "file_save"
               /\ log' = log \o << LogEntry("INFO", "Collected items from source", Len(file_source_structure)),
                                   LogEntry("INFO", "Collected items from target", Len(file_target_structure')) >>
               /\ UNCHANGED file_source_structure
    /\ UNCHANGED <<envVars, exc, loopVars, clcVars, bakVars, differences>>

\* Lines 101-103 and 250-252: the lsjson command raises; rclone_lsjson logs
\* and re-raises, the except clause of the function logs and re-raises.
FileListFail ==
    /\ FileListing
    /\ ops' = Append(ops, Op("list"))
    /\ log' = log \o << Error("Failed to run lsjson"), Error("Error in complete_list_check") >>
    /\ Raise("lsjson_raw")
    /\ UNCHANGED <<envVars, loopVars, clcVars, bakVars, fileVars>>

\* Lines 145-151: st_check_filelist.txt is written.
FileSaveOk ==
    /\ pc = "file_save"
    /\ pc' = "file_compare"
    /\ log' = log \o << Info("Saved source and target structures"),
                        Info("Comparing source and target structures...") >>
    /\ UNCHANGED <<envVars, exc, loopVars, clcVars, bakVars, fileVars, ops>>

\* Lines 145, 250-252: writing st_check_filelist.txt raises.
FileSaveFail ==
    /\ pc = "file_save"
    /\ log' = Append(log, Error("Error in complete_list_check"))
    /\ Raise("save")
    /\ UNCHANGED <<envVars, loopVars, clcVars, bakVars, fileVars, ops>>

FileCompared(entries, next) ==
    /\ pc = "file_compare"
    /\ differences' = Differences(file_source_structure, file_target_structure)
    /\ log' = log \o << LogEntry("INFO", "Found differences between source and target", Len(differences')) >>
                  \o entries
    /\ pc' = next
    /\ UNCHANGED <<envVars, loopVars, clcVars, bakVars, ops,
                   file_source_structure, file_target_structure>>

\* Lines 157-247: the differences are computed, logged and written.
FileCompareOk ==
    /\ FileCompared(<< Info("Saved differences") >>, "file_return")
    /\ UNCHANGED exc

\* Lines 240, 250-252: writing st_check_difflist.txt raises.
FileCompareSaveFail ==
    /\ FileCompared(<< Error("Error in complete_list_check") >>, "raised")
    /\ exc' = "save"

NextFile ==
    \/ FileConfigOk
    \/ FileConfigFail
    \/ FileListOk
    \/ FileListFail
    \/ FileSaveOk
    \/ FileSaveFail
    \/ FileCompareOk
    \/ FileCompareSaveFail

(***************************************************************************)
(* __main__ of rclone_papi.py: the CSV file and the loop over the pairs.   *)
(***************************************************************************)
\* Line 387: the rows that are skipped.
SkipRow(row) ==
    \/ Len(row) < 2
    \/ Strip(row[1], " ") = <<>>
    \/ Strip(row[2], " ") = <<>>

\* Lines 386-391.
RECURSIVE ParseRows(_)
ParseRows(rows) ==
    IF rows = <<>> THEN <<>>
    ELSE (IF SkipRow(rows[1]) THEN <<>>
          ELSE << [src |-> ReplaceChar(Strip(rows[1][1], " "), "\\", "/"),
                   dst |-> Strip(Strip(rows[1][2], " "), "\"")] >>)
         \o ParseRows(SubSeq(rows, 2, Len(rows)))

\* Lines 383-401: the CSV file is read.
ReadCsvOk ==
    /\ pc = "read_csv"
    /\ folders_to_sync' = ParseRows(csv_rows)
    /\ i' = 1
    /\ IF folders_to_sync' = <<>>
       THEN /\ log' = Append(log, Warning("No valid source-target pairs found in the CSV file."))
            /\ pc' = "done"
       ELSE /\ log' = Append(log, LogEntry("INFO", "Folders to process:", Len(folders_to_sync')))
            /\ pc' = "pair"
    /\ UNCHANGED <<envVars, exc, processed, clcVars, bakVars, fileVars, ops>>

\* Lines 383-385: the file cannot be opened, or has no header row.
ReadCsvFail ==
    /\ pc = "read_csv"
    /\ Raise("csv")
    /\ UNCHANGED <<envVars, loopVars, clcVars, bakVars, fileVars, log, ops>>

\* Lines 403-406: the loop body is entered for the next pair.
PairStart ==
    /\ pc = "pair"
    /\ i <= Len(folders_to_sync)
    /\ processed' = Append(processed, i)
    /\ log' = << LogEntry("INFO", "Processing source", i) >>
    /\ pc' = IF script = "rclone_papi" THEN "clc_config" ELSE "file_config"
    /\ UNCHANGED <<envVars, exc, i, folders_to_sync, clcVars, bakVars, fileVars, ops>>

\* Mutant of NextPair: the loop does not move on to the next pair.
MutNextPairStays ==
    /\ pc \in {"backup_return", "file_return"}
    /\ pc' = "pair"
    /\ UNCHANGED <<envVars, exc, loopVars, clcVars, bakVars, fileVars, log, ops>>

\* rclone_papi.py lines 403, 407 and rclone_papi_st_check.py lines 285, 288:
\* the last call of the loop body returned, the for loop moves on.
NextPair ==
    /\ pc \in {"backup_return", "file_return"}
    /\ i' = i + 1
    /\ pc' = "pair"
    /\ UNCHANGED <<envVars, exc, folders_to_sync, processed, clcVars, bakVars,
                   fileVars, log, ops>>

\* Line 403: the list of pairs is through.
LoopEnd ==
    /\ pc = "pair"
    /\ i > Len(folders_to_sync)
    /\ pc' = "done"
    /\ UNCHANGED <<envVars, exc, loopVars, clcVars, bakVars, fileVars, log, ops>>

\* Lines 408-409: the except clause around the reading and the loop.
MainExcept ==
    /\ pc = "raised"
    /\ log' = Append(log, Error("Error reading or processing CSV file"))
    /\ pc' = "done"
    /\ UNCHANGED <<envVars, exc, loopVars, clcVars, bakVars, fileVars, ops>>

Next ==
    \/ ReadCsvOk
    \/ ReadCsvFail
    \/ PairStart
    \/ NextPair
    \/ LoopEnd
    \/ MainExcept
    \/ NextCheck
    \/ BackupConfigOk
    \/ BackupConfigFail
    \/ DiffOk
    \/ DiffFail
    \/ CopyNone
    \/ CopyOk
    \/ CopyItemsFailed
    \/ CopyRaises
    \/ DeleteNone
    \/ DeleteOk
    \/ DeleteFailed
    \/ DeleteRaises
    \/ NextFile

\* The CSV files of the runs: n well-formed rows.
CsvRows(n) == [k \in 1..n |-> <<Root("s", k), Root("d", k)>>]

\* File listings lsjson may give in the runs over several pairs.
SmallFileListings ==
    { <<>>,
      << LsjsonFile(<<"a">>, 10, ModTime(0, 0)) >>,
      << LsjsonFile(<<"a">>, 20, ModTime(0, 0)), LsjsonFile(<<"b">>, 10, ModTime(0, 0)) >> }

InitMain(name) ==
    /\ remote_dirs = SmallDirTrees
    /\ remote_diffs = SmallDiffs
    /\ remote_files = SmallFileListings
    /\ script = name
    /\ \E n \in 0..MaxPairs : csv_rows = CsvRows(n)
    /\ dry_run = FALSE
    /\ pc = "read_csv"
    /\ exc = "none"
    /\ i = 0
    /\ folders_to_sync = <<>>
    /\ processed = <<>>
    /\ log = <<>>
    /\ ops = <<>>
    /\ IdleCheck
    /\ IdleBackup
    /\ IdleFile

\* Either script after its set-up: rclone_papi.py at line 375 with its
\* configuration loaded, rclone_papi_st_check.py at line 258.
Init == InitMain("rclone_papi") \/ InitMain("rclone_papi_st_check")

Spec == Init /\ [][Next]_vars

\* One call complete_file_list_check(src, dst, dry_run=False), as line 288
\* of rclone_papi_st_check.py makes it.
InitFile ==
    /\ remote_dirs = {}
    /\ remote_diffs = {}
    /\ remote_files = SeqsUpTo(FileItems, MaxEntries)
    /\ script = "rclone_papi_st_check"
    /\ csv_rows = <<>>
    /\ dry_run = FALSE
    /\ pc = "file_config"
    /\ exc = "none"
    /\ i = 1
    /\ folders_to_sync = <<Pair(1)>>
    /\ processed = <<1>>
    /\ log = <<>>
    /\ ops = <<>>
    /\ IdleCheck
    /\ IdleBackup
    /\ IdleFile

SpecFile == InitFile /\ [][NextFile]_vars

(***************************************************************************)
(* Properties of complete_list_check, checked under SpecCheck.             *)
(***************************************************************************)
\* Step 4 of the running call is through.
Compared == pc \in {"purge", "clc_return"}

StrictlyAscending(seq) ==
    \A j, k \in 1..Len(seq) : j < k => StrLess(seq[j], seq[k])

\* C1: in directory mode to_create lists exactly the paths of S - D and
\* to_delete exactly those of D - S, each ascending without duplicates; the
\* two are disjoint and with S \cap D they make up S \cup D.
C1_DirectoryDiffer ==
    Compared =>
        /\ Range(to_create) = source_list \ target_structure
        /\ Range(to_delete) = target_structure \ source_list
        /\ StrictlyAscending(to_create)
        /\ StrictlyAscending(to_delete)
        /\ Range(to_create) \cap Range(to_delete) = {}
        /\ Range(to_create) \cup Range(to_delete)
              \cup (source_list \cap target_structure)
           = source_list \cup target_structure

C1_Witness ==
    /\ Compared
    /\ Len(to_create) >= 1
    /\ Len(to_delete) >= 2
    /\ source_list \cap target_structure # {}

\* C2: in the purge calls of one pair no path comes before a path of
\* strictly greater depth, and a directory is purged only after every
\* descendant of it that is in the delete set.
C2_DeepestFirst ==
    /\ \A j, k \in 1..Len(attempts) :
          j < k => Depth(attempts[j].rel) >= Depth(attempts[k].rel)
    /\ \A j \in 1..Len(attempts) : \A p \in Range(to_delete) :
          IsAncestor(attempts[j].rel, p) =>
              \E k \in 1..(j - 1) : attempts[k].rel = p

C2_Witness ==
    /\ pc = "clc_return"
    /\ {Depth(attempts[j].rel) : j \in 1..Len(attempts)} = {1, 2, 3}

HasAncestorIn(p, S) == \E q \in S : IsAncestor(q, p)

PositionsOf(seq, x) == {k \in 1..Len(seq) : seq[k] = x}

\* C3 as stated: a path that has an ancestor in the delete set is not in
\* delete_order.
C3_NoRedundantChild ==
    Compared =>
        \A p \in Range(sorted_to_delete) : ~HasAncestorIn(p, Range(to_delete))

\* C3 amended: delete_order holds every path of the delete set once, the
\* descendants of delete set directories too, and such a descendant stands
\* before each of its ancestors.
C3_ChildrenEmittedFirst ==
    (Compared /\ ~dry_run) =>
        \A p \in Range(to_delete) :
            /\ Cardinality(PositionsOf(sorted_to_delete, p)) = 1
            /\ \A q \in Range(to_delete) :
                  IsAncestor(q, p) =>
                      \A kp \in PositionsOf(sorted_to_delete, p) :
                      \A kq \in PositionsOf(sorted_to_delete, q) : kp < kq

C3_Witness ==
    /\ pc = "clc_return"
    /\ \E p \in Range(to_delete) : HasAncestorIn(p, Range(to_delete))
    /\ Len(attempts) = Len(to_delete)

DNE == <<"directory", "not", "empty">>
NF == <<"not", "found">>
ES3 == <<"exit", "status", "3">>

PurgeMessages ==
    {"Purged folder and contents", "Skipped non-empty folder",
     "Folder already deleted or not found", "Failed to delete"}

IsPurgeEntry(entry) == entry.msg \in PurgeMessages
IsSevere(entry) == entry.level \in {"WARNING", "ERROR"}
IsFailed(a) == ~a.ok

\* the log lines of the purge loop, and those of them that warn or report
\* an error
PurgeLog == SelectSeq(log, IsPurgeEntry)
PurgeSevere == SelectSeq(PurgeLog, IsSevere)
FailedAttempts == SelectSeq(attempts, IsFailed)

LastAttemptFailed ==
    /\ pc = "purge"
    /\ attempts # <<>>
    /\ ~attempts[Len(attempts)].ok

\* C4: a failed purge is classified from its error text: "directory not
\* empty" gives a warning, else "not found" or "exit status 3" gives a
\* warning, anything else an error; a failed item gets exactly one line of
\* these severities and a successful one none.
C4_PurgeTriage ==
    /\ Len(PurgeLog) = Len(attempts)
    /\ \A k \in 1..Len(attempts) :
          /\ PurgeLog[k].arg = attempts[k].path
          /\ attempts[k].ok <=> PurgeLog[k].level = "INFO"
    /\ Len(PurgeSevere) = Len(FailedAttempts)
    /\ LastAttemptFailed =>
          LET entry == log[Len(log)]
          IN  IF Contains(error_msg, DNE)
              THEN entry.level = "WARNING" /\ entry.msg = "Skipped non-empty folder"
              ELSE IF Contains(error_msg, NF) \/ Contains(error_msg, ES3)
                   THEN /\ entry.level = "WARNING"
                        /\ entry.msg = "Folder already deleted or not found"
                   ELSE entry.level = "ERROR" /\ entry.msg = "Failed to delete"

C4_Witness ==
    /\ LastAttemptFailed
    /\ Contains(error_msg, ES3)
    /\ ~Contains(error_msg, NF)
    /\ {PurgeLog[k].msg : k \in 1..Len(PurgeLog)}
         = PurgeMessages \ {"Purged folder and contents"}

Succeeded(seq) == {k \in 1..Len(seq) : seq[k].ok}

PurgeOps == SelectSeq(ops, LAMBDA o : o.op = "purge")

\* C5: whatever purges fail, every path of delete_order is attempted once,
\* the loop ends without an exception leaving it, and the count reported is
\* the number of purges that succeeded.
C5_PurgeBatchNotAborted ==
    /\ pc = "raised" => attempts = <<>> /\ exc \in {"config", "lsjson", "lsjson_raw"}
    /\ deleted_count = Cardinality(Succeeded(attempts))
    /\ Len(PurgeOps) = Len(attempts)
    /\ \A k \in 1..Len(attempts) : attempts[k].rel = sorted_to_delete[k]
    /\ (pc = "clc_return" /\ ~dry_run) =>
          /\ Len(attempts) = Len(sorted_to_delete)
          /\ log[Len(log) - 1] =
                LogEntry("INFO", "Purged folders successfully",
                         Cardinality(Succeeded(attempts)))

C5_Witness ==
    /\ pc = "clc_return"
    /\ Len(attempts) = 3
    /\ attempts[1].ok = FALSE
    /\ attempts[2].ok = FALSE
    /\ attempts[3].ok = TRUE
    /\ \E k \in 1..Len(log) : log[k].msg = "Failed to delete"

ListerRaised == pc = "raised" /\ exc \in {"lsjson", "lsjson_raw"}

\* C8: whenever a listing query fails, in rclone.lsjson or in the raw
\* command taken when that method is not there, an error line is logged and
\* the failure is raised to the caller.
C8_ListerFailureLogged ==
    ListerRaised =>
        /\ log # <<>>
        /\ log[Len(log)].level = "ERROR"
        /\ log[Len(log)].msg = "Failed to collect structure"

(***************************************************************************)
(* Properties of the pair loop, checked under Spec.                        *)
(***************************************************************************)
\* C6: the pairs are worked on one at a time in the order of the batch
\* input: the operations of a pair all come before those of the next pair,
\* and no pair is entered twice.
C6_PairsInOrder ==
    /\ \A j, k \in 1..Len(ops) : j < k => ops[j].pair <= ops[k].pair
    /\ \A k \in 1..Len(processed) : processed[k] = k
    /\ \A k \in 1..Len(ops) :
          /\ ops[k].pair \in Range(processed)
          /\ ops[k].pair <= i
    /\ Len(processed) <= Len(folders_to_sync)

C6_Witness ==
    /\ pc = "done"
    /\ processed = <<1, 2>>
    /\ \E k \in 1..Len(ops) : ops[k] = [pair |-> 1, op |-> "purge"]
    /\ \E k \in 1..Len(ops) : ops[k] = [pair |-> 1, op |-> "copy_files"]
    /\ \E k \in 1..Len(ops) : ops[k] = [pair |-> 2, op |-> "delete_files"]

\* C7: an exception raised while a pair is worked on is caught and logged
\* at the loop, and every later pair is still attempted.
C7_LaterPairsAttempted ==
    pc = "done" =>
        /\ exc # "none" => log[Len(log)].level = "ERROR"
        /\ Range(processed) = 1..Len(folders_to_sync)

(***************************************************************************)
(* Properties of complete_file_list_check, checked under SpecFile.         *)
(***************************************************************************)
FileDiffDone == pc = "file_return"

SourcePaths == {file_source_structure[k].path : k \in 1..Len(file_source_structure)}
TargetPaths == {file_target_structure[k].path : k \in 1..Len(file_target_structure)}

\* the entry a listing holds for a path: the last one listed
EntryOf(structure, p) ==
    structure[CHOOSE k \in 1..Len(structure) :
                 /\ structure[k].path = p
                 /\ \A m \in 1..Len(structure) : structure[m].path = p => m <= k]

RecordsOf(p) == {k \in 1..Len(differences) : differences[k].path = p}

SizesDiffer(p) ==
    EntryOf(file_source_structure, p).size # EntryOf(file_target_structure, p).size

\* whole seconds compared when both time strings are read, the strings
\* themselves otherwise
TimesDiffer(p) ==
    LET s == EntryOf(file_source_structure, p).mod_time
        t == EntryOf(file_target_structure, p).mod_time
    IN  IF s.form = "iso" /\ t.form = "iso" THEN s.sec # t.sec ELSE s # t

InBoth(p) == p \in SourcePaths /\ p \in TargetPaths

\* C9 as stated: every path of the two listings has exactly one record, the
\* paths with equal entries too, and no record is for another path.
C9_ExactlyOneRecordPerPath ==
    FileDiffDone =>
        /\ \A p \in SourcePaths \cup TargetPaths : Cardinality(RecordsOf(p)) = 1
        /\ \A k \in 1..Len(differences) :
              differences[k].path \in SourcePaths \cup TargetPaths

\* C9 amended: a path of the two listings has exactly one record when it is
\* in one listing only or its size or time differs, and no record when it
\* is in both with equal size and time; no record is for another path.
C9_OneRecordPerDifference ==
    FileDiffDone =>
        /\ \A p \in SourcePaths \cup TargetPaths :
              Cardinality(RecordsOf(p)) =
                  IF InBoth(p) /\ ~SizesDiffer(p) /\ ~TimesDiffer(p) THEN 0 ELSE 1
        /\ \A k \in 1..Len(differences) :
              differences[k].path \in SourcePaths \cup TargetPaths

C9_Witness ==
    /\ FileDiffDone
    /\ InBoth(<<"a">>)
    /\ EntryOf(file_source_structure, <<"a">>).mod_time
         # EntryOf(file_target_structure, <<"a">>).mod_time
    /\ RecordsOf(<<"a">>) = {}
    /\ RecordsOf(<<"b">>) # {}

\* C10: a MISSING_IN_TARGET record has a source entry and no destination
\* entry, a MISSING_IN_SOURCE record the reverse; a path has a DIFFERENT
\* record exactly when it is in both listings and its size or its time
\* differs, and the record's two flags are the two comparisons.
C10_ClassificationRules ==
    FileDiffDone =>
        /\ \A k \in 1..Len(differences) :
              LET r == differences[k]
              IN  /\ r.type \in {"MISSING_IN_TARGET", "MISSING_IN_SOURCE", "DIFFERENT"}
                  /\ r.type = "MISSING_IN_TARGET" =>
                        /\ r.path \in SourcePaths \ TargetPaths
                        /\ r.source_size = EntryOf(file_source_structure, r.path).size
                        /\ r.source_modtime = EntryOf(file_source_structure, r.path).mod_time
                        /\ r.target_size = NoneValue
                        /\ r.target_modtime = NoneValue
                  /\ r.type = "MISSING_IN_SOURCE" =>
                        /\ r.path \in TargetPaths \ SourcePaths
                        /\ r.target_size = EntryOf(file_target_structure, r.path).size
                        /\ r.target_modtime = EntryOf(file_target_structure, r.path).mod_time
                        /\ r.source_size = NoneValue
                        /\ r.source_modtime = NoneValue
                  /\ r.type = "DIFFERENT" =>
                        /\ InBoth(r.path)
                        /\ r.size_different = SizesDiffer(r.path)
                        /\ r.modtime_different = TimesDiffer(r.path)
        /\ \A p \in SourcePaths \cup TargetPaths :
              (\E k \in RecordsOf(p) : differences[k].type = "DIFFERENT")
                  <=> (InBoth(p) /\ (SizesDiffer(p) \/ TimesDiffer(p)))

C10_Witness ==
    /\ FileDiffDone
    /\ Len(differences) = 2
    /\ differences[1].type = "DIFFERENT"
    /\ differences[1].size_different = FALSE
    /\ differences[1].modtime_different = TRUE
    /\ differences[2].type = "MISSING_IN_SOURCE"

(***************************************************************************)
(* Time comparison of one file listed on both sides.                       *)
(***************************************************************************)
\* The ModTime strings of one file: read and unread ones, of the same and
\* of different whole seconds.
TimeItems ==
    { LsjsonFile(<<"a">>, 10, mt) :
        mt \in { ModTime(0, 0), ModTime(0, 5), ModTime(1, 0),
                 RawModTime(0, 0), RawModTime(0, 5), RawModTime(1, 0),
                 EmptyModTime } }

\* rclone_papi_st_check.py entered for one pair whose two listings hold the
\* file "a" once, or nothing.
InitTime ==
    /\ remote_dirs = {}
    /\ remote_diffs = {}
    /\ remote_files = {<<>>} \cup {<<item>> : item \in TimeItems}
    /\ script = "rclone_papi_st_check"
    /\ csv_rows = <<>>
    /\ dry_run = FALSE
    /\ pc = "file_config"
    /\ exc = "none"
    /\ i = 1
    /\ folders_to_sync = <<Pair(1)>>
    /\ processed = <<1>>
    /\ log = <<>>
    /\ ops = <<>>
    /\ IdleCheck
    /\ IdleBackup
    /\ IdleFile

SpecTime == InitTime /\ [][NextFile]_vars

SourceTime(p) == EntryOf(file_source_structure, p).mod_time
TargetTime(p) == EntryOf(file_target_structure, p).mod_time

\* two time strings of instants that differ below the second only
SubSecondOnly(s, t) ==
    /\ s.form # "empty"
    /\ t.form # "empty"
    /\ s.sec = t.sec
    /\ s.sub # t.sub

\* C11 as stated: a path listed on both sides with equal sizes and with times
\* that differ below the second only has no record, whether the time strings
\* are read or compared as strings.
C11_SubSecondAlwaysEqual ==
    FileDiffDone =>
        \A p \in SourcePaths \cap TargetPaths :
            (~SizesDiffer(p) /\ SubSecondOnly(SourceTime(p), TargetTime(p)))
                => RecordsOf(p) = {}

\* C11 amended: a path listed on both sides with equal sizes and with times
\* that differ below the second only has no record when both time strings
\* are read; when one of them is not read, the strings are compared and the
\* path has one DIFFERENT record with modtime_different set and
\* size_different not set.
C11_SubSecondEqualWhenParsed ==
    FileDiffDone =>
        \A p \in SourcePaths \cap TargetPaths :
            (~SizesDiffer(p) /\ SubSecondOnly(SourceTime(p), TargetTime(p))) =>
                IF SourceTime(p).form = "iso" /\ TargetTime(p).form = "iso"
                THEN RecordsOf(p) = {}
                ELSE \E k \in RecordsOf(p) :
                        /\ RecordsOf(p) = {k}
                        /\ differences[k].type = "DIFFERENT"
                        /\ differences[k].modtime_different = TRUE
                        /\ differences[k].size_different = FALSE

C11_Witness ==
    /\ FileDiffDone
    /\ InBoth(<<"a">>)
    /\ SourceTime(<<"a">>) = ModTime(0, 0)
    /\ TargetTime(<<"a">>) = ModTime(0, 5)
    /\ ~SizesDiffer(<<"a">>)
    /\ differences = <<>>

(***************************************************************************)
(* The batch input: the rows csv.reader gives after the header row.        *)
(***************************************************************************)
\* Fields of a row: empty, blank, plain, quotes only (written with a blank
\* before the opening quote, csv.reader leaves the quotes in the field),
\* quoted with blanks around, and with a backslash.
CsvFields ==
    { <<>>,
      <<" ">>,
      <<"s">>,
      <<" ", "\"", "\"">>,
      <<" ", "\"", "d", "\"", " ">>,
      <<"c", "\\", "x">> }

\* Rows: a blank line, a row of one column, rows of two columns.
CsvRowSet == {<<>>, <<<<"s">>>>} \cup (CsvFields \X CsvFields)

\* Either script at the open of the CSV file (rclone_papi.py line 383,
\* rclone_papi_st_check.py line 265).
InitCsv ==
    /\ remote_dirs = SmallDirTrees
    /\ remote_diffs = SmallDiffs
    /\ remote_files = SmallFileListings
    /\ script \in {"rclone_papi", "rclone_papi_st_check"}
    /\ csv_rows \in SeqsUpTo(CsvRowSet, MaxRows)
    /\ dry_run = FALSE
    /\ pc = "read_csv"
    /\ exc = "none"
    /\ i = 0
    /\ folders_to_sync = <<>>
    /\ processed = <<>>
    /\ log = <<>>
    /\ ops = <<>>
    /\ IdleCheck
    /\ IdleBackup
    /\ IdleFile

\* The reading of the file, up to the loop over the pairs.
NextCsv ==
    \/ ReadCsvOk
    \/ ReadCsvFail
    \/ MainExcept

SpecCsv == InitCsv /\ [][NextCsv]_vars

CsvRead == pc \in {"pair", "done"} /\ exc = "none"

\* a location that is empty once white space and surrounding quotes are off
EmptyLocation(x) == Strip(Strip(x, " "), "\"") = <<>>

\* a row with an empty or missing source or destination column
EmptyOrMissing(row) ==
    \/ Len(row) < 2
    \/ Strip(row[1], " ") = <<>>
    \/ Strip(row[2], " ") = <<>>

\* the rows that are not skipped, in file order
KeptRows == SelectSeq(csv_rows, LAMBDA row : ~EmptyOrMissing(row))

\* the pair list follows the kept rows one to one, in their order
RowOrderKept ==
    /\ Len(folders_to_sync) = Len(KeptRows)
    /\ \A k \in 1..Len(KeptRows) :
          /\ folders_to_sync[k].src = ReplaceChar(Strip(KeptRows[k][1], " "), "\\", "/")
          /\ folders_to_sync[k].dst = Strip(Strip(KeptRows[k][2], " "), "\"")

NoEmptyLocation ==
    \A k \in 1..Len(folders_to_sync) :
        /\ ~EmptyLocation(folders_to_sync[k].src)
        /\ ~EmptyLocation(folders_to_sync[k].dst)

\* C12: once the batch input is read (it is read without raising for every
\* row), no pair of the pair list has a source or a destination location that
\* is empty after white space and surrounding quotes are stripped, and the
\* pair list keeps the order of the rows.
C12_BatchInputFiltered == CsvRead => (NoEmptyLocation /\ RowOrderKept)

\* the part of C12 about the order of the rows, taken alone
C12_RowOrderKept == CsvRead => RowOrderKept

\* a pair with an empty destination is in the pair list
C12_EmptyDestinationKept ==
    /\ CsvRead
    /\ \E k \in 1..Len(folders_to_sync) : folders_to_sync[k].dst = <<>>

(***************************************************************************)
(* The two functions of rclone_papi.py called for one pair, with either    *)
(* value of dry_run: complete_list_check, and                              *)
(* large_folder_backup_with_analysis after it has returned.                *)
(***************************************************************************)
InitOnePair ==
    /\ remote_dirs = DirTrees
    /\ remote_diffs = SmallDiffs
    /\ remote_files = {}
    /\ script = "rclone_papi"
    /\ csv_rows = <<>>
    /\ dry_run \in BOOLEAN
    /\ pc = "clc_config"
    /\ exc = "none"
    /\ i = 1
    /\ folders_to_sync = <<Pair(1)>>
    /\ processed = <<1>>
    /\ log = <<>>
    /\ ops = <<>>
    /\ IdleCheck
    /\ IdleBackup
    /\ IdleFile

NextBackup ==
    \/ BackupConfigOk
    \/ BackupConfigFail
    \/ DiffOk
    \/ DiffFail
    \/ CopyNone
    \/ CopyOk
    \/ CopyItemsFailed
    \/ CopyRaises
    \/ DeleteNone
    \/ DeleteOk
    \/ DeleteFailed
    \/ DeleteRaises

NextOnePair == NextCheck \/ NextBackup

SpecOnePair == InitOnePair /\ [][NextOnePair]_vars

\* the remote calls that only read
QueryOps == {"list", "diff"}

\* C13: in a dry run every remote call of complete_list_check and of
\* large_folder_backup_with_analysis is a listing or a diff query: no purge,
\* no batch copy and no batch delete is issued, and no purge is attempted,
\* whatever the listings and the diff result are.
C13_DryRunOnlyQueries ==
    dry_run =>
        /\ \A k \in 1..Len(ops) : ops[k].op \in QueryOps
        /\ attempts = <<>>
        /\ pc \notin {"purge", "copy", "delete"}

\* a dry run of both functions that found directories to purge and files to
\* copy and to delete
C13_Witness ==
    /\ dry_run
    /\ pc = "backup_return"
    /\ to_delete # <<>>
    /\ \E k \in 1..Len(diffs) : diffs[k].type = "MISSING_ON_SRC"
    /\ \E k \in 1..Len(diffs) : diffs[k].type = "DIFFERENT"
    /\ [k \in 1..Len(ops) |-> ops[k].op] = <<"list", "list", "diff">>

(***************************************************************************)
(* The order of the purge loop as a function of the delete set.            *)
(***************************************************************************)
\* p comes before q in the order: deeper first, and of two paths of equal
\* depth the one that is first in the order of sorted()
PurgedBefore(p, q) ==
    \/ Depth(p) > Depth(q)
    \/ Depth(p) = Depth(q) /\ StrLess(p, q)

\* C14: delete_order (sorted_to_delete) holds the elements of delete_set
\* (to_delete), each once, by depth descending (depth = number of '/' plus
\* one) and, for equal depths, in ascending lexical order; so it is a
\* function of the delete set alone.
C14_DeleteOrderDetermined ==
    (Compared /\ ~dry_run) =>
        /\ Len(sorted_to_delete) = Len(to_delete)
        /\ Range(sorted_to_delete) = target_structure \ source_list
        /\ \A j, k \in 1..Len(sorted_to_delete) :
              j < k => PurgedBefore(sorted_to_delete[j], sorted_to_delete[k])

\* a delete set with two directories of depth 1 and one of depth 2
C14_Witness ==
    /\ Compared
    /\ Range(to_delete) = {<<"a">>, <<"a", "-", "b">>, <<"a", "/", "b">>}
    /\ sorted_to_delete = << <<"a", "/", "b">>, <<"a">>, <<"a", "-", "b">> >>

(***************************************************************************)
(* large_folder_backup_with_analysis alone, over the results of            *)
(* rclone.diff.                                                            *)
(***************************************************************************)
\* The members of DiffType; ERROR is the kind the code has no branch for.
DiffKinds == {"EQUAL", "MISSING_ON_SRC", "MISSING_ON_DST", "DIFFERENT", "ERROR"}

DiffPaths == { <<"a">>, <<"a", "/", "b">>, <<"c">> }

DiffItems == {DiffItem(type, path) : type \in DiffKinds, path \in DiffPaths}

\* rclone.diff reports a path once.
DiffResults ==
    {ds \in SeqsUpTo(DiffItems, MaxDiffs) :
        \A j, k \in 1..Len(ds) : j # k => ds[j].path # ds[k].path}

\* One call large_folder_backup_with_analysis(src, dst, dry_run).
InitBackup ==
    /\ remote_dirs = {}
    /\ remote_diffs = DiffResults
    /\ remote_files = {}
    /\ script = "rclone_papi"
    /\ csv_rows = <<>>
    /\ dry_run \in BOOLEAN
    /\ pc = "clc_return"
    /\ exc = "none"
    /\ i = 1
    /\ folders_to_sync = <<Pair(1)>>
    /\ processed = <<1>>
    /\ log = <<>>
    /\ ops = <<>>
    /\ IdleCheck
    /\ IdleBackup
    /\ IdleFile

SpecBackup == InitBackup /\ [][NextBackup]_vars

\* perform_sync has collected what to copy and what to delete
Planned == pc \in {"copy", "delete"} \/ (pc = "backup_return" /\ ~dry_run)

ItemsOfKind(kinds) == {k \in 1..Len(diffs) : diffs[k].type \in kinds}

CopyKinds == {"MISSING_ON_DST", "DIFFERENT"}
DeleteKinds == {"MISSING_ON_SRC"}

DstPath(path) == root_dst \o <<"/">> \o path

\* C15: copy_set (to_copy) holds exactly the paths of the diff items of kind
\* MISSING_ON_DST or DIFFERENT, delete_set (to_delete of perform_sync) exactly
\* the destination paths of the items of kind MISSING_ON_SRC, an item of kind
\* EQUAL or of any other kind is in neither, and no item's path is in both.
C15_ActionPlanning ==
    Planned =>
        /\ Range(to_copy) = {diffs[k].path : k \in ItemsOfKind(CopyKinds)}
        /\ Len(to_copy) = Cardinality(ItemsOfKind(CopyKinds))
        /\ Range(files_to_delete) = {DstPath(diffs[k].path) : k \in ItemsOfKind(DeleteKinds)}
        /\ Len(files_to_delete) = Cardinality(ItemsOfKind(DeleteKinds))
        /\ \A k \in ItemsOfKind(DiffKinds \ (CopyKinds \cup DeleteKinds)) :
              /\ diffs[k].path \notin Range(to_copy)
              /\ DstPath(diffs[k].path) \notin Range(files_to_delete)
        /\ \A k \in 1..Len(diffs) :
              ~(diffs[k].path \in Range(to_copy)
                  /\ DstPath(diffs[k].path) \in Range(files_to_delete))

\* a file to copy and a file to delete are planned
C15_Witness ==
    /\ pc = "backup_return"
    /\ to_copy = << <<"a", "/", "b">> >>
    /\ files_to_delete = << DstPath(<<"c">>) >>
    /\ Len(diffs) = 2

\* an item of a kind without a branch is planned for nothing
C15_WitnessOtherKind ==
    /\ pc = "backup_return"
    /\ ~dry_run
    /\ \E k \in 1..Len(diffs) : diffs[k].type = "ERROR"
    /\ \E k \in 1..Len(diffs) : diffs[k].type = "DIFFERENT"
    /\ files_to_delete = <<>>

(***************************************************************************)
(* The executor of perform_sync: the batch copy, then the batch delete.    *)
(***************************************************************************)
\* the calls of one kind made for a pair, as positions in the history
OpsOf(pair, kind) == {k \in 1..Len(ops) : ops[k].pair = pair /\ ops[k].op = kind}

\* the step is a call of the batch copy / of the batch delete
CopyStep == ops' = Append(ops, Op("copy_files"))
DeleteStep == ops' = Append(ops, Op("delete_files"))

\* what the executor logs when copy_files has returned, or has failed
CopyOutcomes ==
    { Info("Copy completed successfully."),
      Error("files failed to copy"),
      Error("Copy operation failed") }

CopyFailures == CopyOutcomes \ {Info("Copy completed successfully.")}

\* C16: within one pair the batch copy is called only with a non-empty
\* copy_set, at most once and before any batch delete; its outcome, a failure
\* too, is logged and the executor goes on to the deletions, nothing is
\* raised; the batch delete is called only with a non-empty delete_set, at
\* most once, and only when the copy stage is over.
C16_CopyBeforeDelete ==
    [][ /\ CopyStep =>
              /\ to_copy # <<>>
              /\ OpsOf(i, "copy_files") = {}
              /\ OpsOf(i, "delete_files") = {}
              /\ log'[Len(log')] \in CopyOutcomes
              /\ pc' = "delete"
              /\ exc' = "none"
        /\ DeleteStep =>
              /\ files_to_delete # <<>>
              /\ OpsOf(i, "delete_files") = {}
              /\ pc = "delete"
              /\ to_copy # <<>> => Cardinality(OpsOf(i, "copy_files")) = 1
      ]_vars

\* the batch copy of a pair has failed and was logged, the batch delete of
\* the pair was called after it
C16_Witness ==
    /\ pc = "backup_return"
    /\ \E k \in 1..Len(log) : log[k] \in CopyFailures
    /\ \E j \in OpsOf(i, "copy_files") : \E k \in OpsOf(i, "delete_files") : j < k
    /\ i = 2

(***************************************************************************)
(* Failed listings and the destructive calls.                              *)
(***************************************************************************)
\* a listing of the pair in work has failed: collect_structure has raised,
\* or has logged its failure
ListingFailed ==
    \/ exc \in {"lsjson", "lsjson_raw"}
    \/ \E k \in 1..Len(log) :
          log[k] \in {LogEntry("ERROR", "Failed to collect structure", side) :
                        side \in {"source", "target"}}

\* the remote calls that change the destination
DestructiveOps == {"purge", "copy_files", "delete_files"}

\* C17: when the listing of the source or of the destination of a pair has
\* failed, no purge, no batch copy and no batch delete is issued for that
\* pair, by complete_list_check or by the backup that would follow it: the
\* remote calls of the pair are its listings, the failed one the last.
C17_NoDeletionAfterListingFailure ==
    ListingFailed =>
        /\ \A k \in 1..Len(ops) : ops[k].pair = i => ops[k].op \notin DestructiveOps
        /\ ops # <<>> /\ ops[Len(ops)] = Op("list")
        /\ attempts = <<>>
        /\ pc \in {"raised", "done"}

\* the listing of the destination of the second pair has failed after the
\* first pair had a directory purged
C17_Witness ==
    /\ ListingFailed
    /\ pc = "done"
    /\ i = 2
    /\ Cardinality(OpsOf(2, "list")) = 2
    /\ OpsOf(1, "purge") # {}

(***************************************************************************)
(* The paths handed to purge and to the batch delete.                      *)
(***************************************************************************)
\* the relative paths the diff gave as present on the destination only
MissingOnSrc == {diffs[k].path : k \in ItemsOfKind(DeleteKinds)}

\* path is the destination root joined by '/' with the relative path rel
UnderDstRoot(path, rel) ==
    /\ rel # <<>>
    /\ path = root_dst \o <<"/">> \o rel
    /\ path \notin {root_src, root_dst}

====
